---- MODULE Spec2Model ----
(***************************************************************************)
(* A model of the tedis connection core (src/core/base.ts): one socket,    *)
(* a RESP decoder, and the queue of response callbacks that pairs the      *)
(* streamed replies with the command() calls that are waiting for them.    *)
(*                                                                         *)
(* Bytes are one-character strings; a byte stream is a sequence of them.   *)
(* The class Protocol (./protocol) is imported by base.ts; it is modelled  *)
(* from the wire format the specification gives (sections 4.1, 4.2, 6).    *)
(***************************************************************************)
EXTENDS Integers, Sequences, FiniteSets, TLC

(***************************************************************************)
(* Bounds of the model.                                                    *)
(***************************************************************************)
\* command() calls per connection, the AUTH of the constructor included
MaxCmds == 2
\* listeners the user registers with on()
MaxOn == 1
\* 'timeout' events of the socket
MaxTimeouts == 1

(***************************************************************************)
(* Wire format: bytes and messages                                         *)
(***************************************************************************)
CR == "\r"
LF == "\n"
CRLF == <<CR, LF>>

Digits == <<"0", "1", "2", "3", "4", "5", "6", "7", "8", "9">>

IsDigit(c) == \E i \in 1..10 : Digits[i] = c

DigitVal(c) == (CHOOSE i \in 1..10 : Digits[i] = c) - 1

\* the decimal text of a natural number
RECURSIVE NatText(_)
NatText(n) ==
    IF n < 10 THEN <<Digits[n + 1]>>
    ELSE NatText(n \div 10) \o <<Digits[(n % 10) + 1]>>

\* the decimal text of an integer
IntText(n) == IF n < 0 THEN <<"-">> \o NatText(0 - n) ELSE NatText(n)

\* an optional sign followed by at least one digit, and nothing else
IsIntText(s) ==
    LET body == IF Len(s) > 0 /\ s[1] = "-" THEN Tail(s) ELSE s
    IN  Len(body) > 0 /\ \A i \in 1..Len(body) : IsDigit(body[i])

RECURSIVE NatValue(_)
NatValue(s) ==
    IF Len(s) = 0 THEN 0
    ELSE 10 * NatValue(SubSeq(s, 1, Len(s) - 1)) + DigitVal(s[Len(s)])

IntValue(s) == IF s[1] = "-" THEN 0 - NatValue(Tail(s)) ELSE NatValue(s)

\* The variants of a decoded reply.
Simple(s) == [type |-> "Simple", val |-> s]
Error(s) == [type |-> "Error", val |-> s]
Integer(n) == [type |-> "Integer", val |-> n]
BulkString(s) == [type |-> "BulkString", val |-> s]
NullBulk == [type |-> "NullBulk"]
Array(ms) == [type |-> "Array", val |-> ms]
NullArray == [type |-> "NullArray"]

\* The bytes a server puts on the wire for one reply.
RECURSIVE Serialize(_)
RECURSIVE SerializeAll(_)
Serialize(m) ==
    CASE m.type = "Simple" -> <<"+">> \o m.val \o CRLF
      [] m.type = "Error" -> <<"-">> \o m.val \o CRLF
      [] m.type = "Integer" -> <<":">> \o IntText(m.val) \o CRLF
      [] m.type = "BulkString" ->
            <<"$">> \o NatText(Len(m.val)) \o CRLF \o m.val \o CRLF
      [] m.type = "NullBulk" -> <<"$", "-", "1">> \o CRLF
      [] m.type = "Array" ->
            <<"*">> \o NatText(Len(m.val)) \o CRLF \o SerializeAll(m.val)
      [] m.type = "NullArray" -> <<"*", "-", "1">> \o CRLF

SerializeAll(ms) ==
    IF Len(ms) = 0 THEN <<>> ELSE Serialize(Head(ms)) \o SerializeAll(Tail(ms))

(***************************************************************************)
(* Protocol.encode: a command as an array of bulk strings                  *)
(***************************************************************************)
\* A parameter of command(): a string, a number, or a value of another type.
Str(s) == [t |-> "string", v |-> s]
Num(n) == [t |-> "number", v |-> n]
Other == [t |-> "other"]

ParamText(p) == IF p.t = "number" THEN IntText(p.v) ELSE p.v

\* encode rejects a parameter that is neither a string nor a number
EncodeThrows(params) ==
    \E i \in 1..Len(params) : params[i].t \notin {"string", "number"}

RECURSIVE EncodeParams(_)
EncodeParams(params) ==
    IF Len(params) = 0 THEN <<>>
    ELSE LET s == ParamText(Head(params))
         IN  <<"$">> \o NatText(Len(s)) \o CRLF \o s \o CRLF
                \o EncodeParams(Tail(params))

Encode(params) ==
    <<"*">> \o NatText(Len(params)) \o CRLF \o EncodeParams(params)

(***************************************************************************)
(* Protocol.write / Protocol.parse: the incremental decoder                *)
(***************************************************************************)
\* the index of the CR of the first CRLF at or after position p; 0 if none
FindCRLF(buf, p) ==
    LET hits == {i \in p..(Len(buf) - 1) : buf[i] = CR /\ buf[i + 1] = LF}
    IN  IF hits = {} THEN 0 ELSE CHOOSE i \in hits : \A j \in hits : i <= j

More == [st |-> "more"]
Bad == [st |-> "bad"]
Ok(m, next) == [st |-> "ok", val |-> m, next |-> next]

\* Decode the one message that starts at position p of buf: "ok" with the
\* message and the position after it, "more" when buf ends before the
\* message does, "bad" on a protocol violation.
RECURSIVE ParseAt(_, _)
RECURSIVE ParseElems(_, _, _, _)
ParseAt(buf, p) ==
    IF p > Len(buf) THEN More
    ELSE IF buf[p] \notin {"+", "-", ":", "$", "*"} THEN Bad
    ELSE
      LET e == FindCRLF(buf, p + 1)
          line == SubSeq(buf, p + 1, e - 1)
      IN  IF e = 0 THEN More
          ELSE CASE buf[p] = "+" -> Ok(Simple(line), e + 2)
                 [] buf[p] = "-" -> Ok(Error(line), e + 2)
                 [] buf[p] = ":" ->
                      IF IsIntText(line) THEN Ok(Integer(IntValue(line)), e + 2)
                      ELSE Bad
                 [] buf[p] = "$" ->
                      IF ~IsIntText(line) THEN Bad
                      ELSE LET n == IntValue(line)
                           IN  IF n < 0 THEN Ok(NullBulk, e + 2)
                               ELSE IF Len(buf) < e + 2 + n + 1 THEN More
                               ELSE IF SubSeq(buf, e + 2 + n, e + 3 + n) # CRLF
                                    THEN Bad
                               ELSE Ok(BulkString(SubSeq(buf, e + 2, e + 1 + n)),
                                       e + 4 + n)
                 [] buf[p] = "*" ->
                      IF ~IsIntText(line) THEN Bad
                      ELSE LET n == IntValue(line)
                           IN  IF n < 0 THEN Ok(NullArray, e + 2)
                               ELSE ParseElems(buf, e + 2, n, <<>>)

ParseElems(buf, p, n, acc) ==
    IF n = 0 THEN Ok(Array(acc), p)
    ELSE LET r == ParseAt(buf, p)
         IN  IF r.st = "ok" THEN ParseElems(buf, r.next, n - 1, Append(acc, r.val))
             ELSE r

\* parse(): every complete message of the buffer, in order, and the bytes
\* left over; bad when a protocol violation is met (parse then throws).
RECURSIVE ParseFrom(_, _, _)
ParseFrom(buf, p, acc) ==
    LET r == ParseAt(buf, p)
    IN  CASE r.st = "ok" -> ParseFrom(buf, r.next, Append(acc, r.val))
          [] r.st = "more" ->
               [bad |-> FALSE, msgs |-> acc, rest |-> SubSeq(buf, p, Len(buf))]
          [] r.st = "bad" ->
               [bad |-> TRUE, msgs |-> acc, rest |-> SubSeq(buf, p, Len(buf))]

Parse(buf) == ParseFrom(buf, 1, <<>>)

(***************************************************************************)
(* The Promise a command() call returns, and the callback queued for it    *)
(***************************************************************************)
NoValue == [type |-> "undefined"]

\* an option that is not given
Undefined == [t |-> "undefined"]

\* typeof x === "string", typeof x === "number"
IsString(x) == x.t = "string"
IsNumber(x) == x.t = "number"

NoPromise == [state |-> "none", val |-> NoValue]
Pending == [state |-> "pending", val |-> NoValue]

\* resolve and reject settle a pending promise and leave a settled one alone
Resolve(p, v) ==
    IF p.state = "pending" THEN [state |-> "fulfilled", val |-> v] ELSE p

Reject(p, v) ==
    IF p.state = "pending" THEN [state |-> "rejected", val |-> v] ELSE p

\* the callback command() queues: (err, res) => err ? reject(res) : resolve(res)
Callback(p, err, res) == IF err THEN Reject(p, res) ELSE Resolve(p, res)

Settled(p) == p.state \in {"fulfilled", "rejected"}

\* x instanceof Error, for a value a promise carries
IsErrorValue(v) == v.type \in {"Error", "UsageError"}

(***************************************************************************)
(* Inputs                                                                  *)
(***************************************************************************)
\* the calls of command() under SpecLoose, where the server breaks the
\* one-reply-per-command assumption: enough for the calls that follow it
LooseCmds == MaxCmds + 1

\* the handles of the model: what a caller of SpecLoose can obtain
Handles == 1..LooseCmds

\* options of the constructor: each field is set or undefined
Options ==
    [username : {Undefined, Str(<<"u">>)},
     password : {Undefined, Str(<<"p">>)},
     timeout : {Undefined, Num(1000)}]

\* the parameter lists a caller passes to command()
UserCommands ==
    { <<Str(<<"S">>), Str(<<"k">>), Num(10)>>,
      <<Str(<<"S">>), Str(<<"k">>), Other>> }

\* the events a caller passes to on()
OnEvents == {"connect", "timeout", "error", "close", "data"}

\* what the server may send in answer to one command: the bytes of a reply,
\* or bytes that are no reply of the protocol
Malformed == [type |-> "Malformed"]
NoReply == [type |-> "none"]

ServerFrames ==
    { [msg |-> Simple(<<"a">>), bytes |-> Serialize(Simple(<<"a">>))],
      [msg |-> Error(<<"e">>), bytes |-> Serialize(Error(<<"e">>))],
      [msg |-> Malformed, bytes |-> <<"?", CR, LF>>] }

(***************************************************************************)
(* State                                                                   *)
(***************************************************************************)
VARIABLES
    opts,        \* the options the connection is constructed with
    pc,          \* "new", "idle" (no code of the object runs), "command"
    call,        \* the running command() call: handle, parameters, statement
    nCalls,      \* command() calls so far; call n returns handle n
    callbacks,   \* this.callbacks: the handles whose callbacks are queued
    promise,     \* the promise of each handle
    awaiting,    \* the handle auth() awaits, 0 when it awaits nothing
    handlers,    \* handle_connect, handle_timeout, handle_error, handle_close
    sock,        \* this.socket: "open", "ended" (end() called), "closed"
    connected,   \* the socket's 'connect' event has fired
    wire,        \* frames written to the socket, not yet answered
    net,         \* bytes the server has sent, not yet delivered as 'data'
    buffer,      \* the decoder's unconsumed bytes
    thrown,      \* exceptions that left an event handler uncaught
    log,         \* the calls of the user's listeners, in order
    nTimeouts,   \* 'timeout' events so far
    \* history, for stating the properties
    invoked,     \* how often each handle's callback was invoked
    pushed,      \* the handles appended to callbacks, in order
    written,     \* the frames handed to socket.write, in order
    replyOf,     \* what the server sent in answer to each handle's command
    dispatched,  \* the decoded replies, each with the handle it was given to
    timedOut,    \* the handles that were pending at a 'timeout' event
    sent         \* the frames the server has sent, in order, each with its command

vars ==
    <<opts, pc, call, nCalls, callbacks, promise, awaiting, handlers, sock,
      connected, wire, net, buffer, thrown, log, nTimeouts, invoked, pushed,
      written, replyOf, dispatched, timedOut, sent>>

NoCall == [h |-> 0, params |-> <<>>, stmt |-> 0]

NoHandlers ==
    [connect |-> FALSE, timeout |-> FALSE, error |-> FALSE, close |-> FALSE]

Init ==
    /\ opts \in Options
    /\ pc = "new"
    /\ call = NoCall
    /\ nCalls = 0
    /\ callbacks = <<>>
    /\ promise = [h \in Handles |-> NoPromise]
    /\ awaiting = 0
    /\ handlers = NoHandlers
    /\ sock = "open"
    /\ connected = FALSE
    /\ wire = <<>>
    /\ net = <<>>
    /\ buffer = <<>>
    /\ thrown = {}
    /\ log = <<>>
    /\ nTimeouts = 0
    /\ invoked = [h \in Handles |-> 0]
    /\ pushed = <<>>
    /\ written = <<>>
    /\ replyOf = [h \in Handles |-> NoReply]
    /\ dispatched = <<>>
    /\ timedOut = {}
    /\ sent = <<>>

(***************************************************************************)
(* Helpers of the actions                                                  *)
(***************************************************************************)
\* socket.end(): an open socket is half-closed; it still receives
End(s) == IF s = "open" THEN "ended" ELSE s

\* the socket's 'error' listener of init(): the user's listener, or else the
\* console, which is no state of the program
OnError(lg, hs, err) ==
    IF hs.error THEN Append(lg, [to |-> "error", arg |-> err]) ELSE lg

\* the socket's 'close' listener of init()
OnClose(lg, hs, hadError) ==
    IF hs.close THEN Append(lg, [to |-> "close", arg |-> hadError]) ELSE lg

\* the handles whose promise is pending
PendingHandles == {h \in Handles : promise[h].state = "pending"}

\* a listener that parses the bytes of the event alone, without the buffer
FeedNewBytesOnly(buf, data) == Parse(data)

\* protocol.write(data) followed by protocol.parse(): the bytes are appended
\* to the decoder's buffer and the buffer is parsed
Feed(buf, data) == Parse(buf \o data)

\* callbacks.pop(): the last entry is taken instead of the first
PopLast(cbs) ==
    [cb |-> cbs[Len(cbs)], rest |-> SubSeq(cbs, 1, Len(cbs) - 1)]

\* callbacks[0]: the head is read and stays in the queue
PeekHead(cbs) == [cb |-> Head(cbs), rest |-> cbs]

\* callbacks.shift(): the head is removed from the queue and returned
Shift(cbs) == [cb |-> Head(cbs), rest |-> Tail(cbs)]

\* A listener that takes every 'data' event for one reply: it gives the head
\* callback the first message, or what there is when none is complete.
DispatchPerRead(msgs, st) ==
    IF Len(st.callbacks) = 0 THEN st
    ELSE LET h == Head(st.callbacks)
             m == IF Len(msgs) = 0 THEN [type |-> "Partial"] ELSE Head(msgs)
         IN  [st EXCEPT !.callbacks = Tail(@),
                        !.promise[h] = Callback(@, FALSE, m),
                        !.invoked[h] = @ + 1,
                        !.dispatched = Append(@, [h |-> h, msg |-> m])]

\* The forEach of the 'data' listener over the parsed messages: each message
\* is given to the callback shifted off the queue, with err = false.  With
\* the queue empty, shift() yields undefined and calling it throws.
RECURSIVE Dispatch(_, _)
Dispatch(msgs, st) ==
    IF Len(msgs) = 0 THEN st
    ELSE IF Len(st.callbacks) = 0
         THEN [st EXCEPT !.thrown = @ \cup {"TypeError"}]
    ELSE LET h == Shift(st.callbacks).cb
             m == Head(msgs)
         IN  Dispatch(Tail(msgs),
                [st EXCEPT !.callbacks = Shift(@).rest,
                           !.promise[h] = Callback(@, FALSE, m),
                           !.invoked[h] = @ + 1,
                           !.dispatched = Append(@, [h |-> h, msg |-> m])])

\* an auth() that sends the password before the username
AuthParamsSwapped(options) ==
    IF IsString(options.username) /\ IsString(options.password)
    THEN <<Str(<<"A", "U", "T", "H">>), options.password, options.username>>
    ELSE IF IsString(options.username)
    THEN <<Str(<<"A", "U", "T", "H">>), options.username>>
    ELSE IF IsString(options.password)
    THEN <<Str(<<"A", "U", "T", "H">>), options.password>>
    ELSE <<>>

\* the parameters of the AUTH command auth() issues; <<>> when it issues none
AuthParams(options) ==
    IF IsString(options.username) /\ IsString(options.password)
    THEN <<Str(<<"A", "U", "T", "H">>), options.username, options.password>>
    ELSE IF IsString(options.username)
    THEN <<Str(<<"A", "U", "T", "H">>), options.username>>
    ELSE IF IsString(options.password)
    THEN <<Str(<<"A", "U", "T", "H">>), options.password>>
    ELSE <<>>

\* a constructor that authenticates only when a username is given
AuthOptionsUserOnly(o) ==
    IF IsString(o.username)
    THEN [username |-> o.username, password |-> o.password]
    ELSE Undefined

\* the options the constructor passes to auth(); Undefined when it does not
\* call auth()
AuthOptions(o) ==
    IF IsString(o.username)
    THEN [username |-> o.username, password |-> o.password]
    ELSE IF IsString(o.password)
    THEN [username |-> Undefined, password |-> o.password]
    ELSE Undefined

\* an executor that writes the command and queues no callback
WriteOnly == <<"write">>

\* the executor with its statements exchanged: the write comes first
WriteThenPush == <<"write", "push">>

\* the order of the two statements of the executor in command()
CommandBody == <<"push", "write">>

\* an auth() that takes every fulfilled promise for a success
AuthFailsOnReject(p) == p.state = "rejected"

\* auth() fails when the awaited promise is rejected, or is fulfilled with a
\* value that is an Error
AuthFails(p) ==
    p.state = "rejected" \/ (p.state = "fulfilled" /\ IsErrorValue(p.val))

\* The rest of auth() after its await, run once the awaited promise has
\* settled: on failure the error is emitted on the socket and the socket is
\* ended.  st holds the promises, the awaited handle, the log and the socket.
AfterAwait(st) ==
    IF st.awaiting = 0 \/ ~Settled(st.promise[st.awaiting]) THEN st
    ELSE IF AuthFails(st.promise[st.awaiting])
    THEN [st EXCEPT !.awaiting = 0,
                    !.log = OnError(@, handlers, st.promise[st.awaiting].val),
                    !.sock = End(@)]
    ELSE [st EXCEPT !.awaiting = 0]

(***************************************************************************)
(* Actions of the client                                                   *)
(***************************************************************************)
\* new Base(options): the listeners of init() are installed, the queue is
\* empty, and with a username or a password auth() runs up to its await,
\* that is into command("AUTH", ...).
Construct ==
    /\ pc = "new"
    /\ callbacks' = <<>>
    /\ IF AuthOptions(opts) # Undefined /\ AuthParams(AuthOptions(opts)) # <<>>
       THEN /\ nCalls' = nCalls + 1
            /\ promise' = [promise EXCEPT ![nCalls + 1] = Pending]
            /\ call' = [h |-> nCalls + 1,
                        params |-> AuthParams(AuthOptions(opts)),
                        stmt |-> 1]
            /\ awaiting' = nCalls + 1
            /\ pc' = "command"
       ELSE /\ pc' = "idle"
            /\ UNCHANGED <<nCalls, promise, call, awaiting>>
    /\ UNCHANGED <<opts, handlers, sock, connected, wire, net, buffer, thrown,
                   log, nTimeouts, invoked, pushed, written, replyOf,
                   dispatched, timedOut, sent>>

\* A caller calls command(...params): the promise is created and its
\* executor starts.
StartCommand(params) ==
    /\ pc = "idle"
    /\ nCalls' = nCalls + 1
    /\ promise' = [promise EXCEPT ![nCalls + 1] = Pending]
    /\ call' = [h |-> nCalls + 1, params |-> params, stmt |-> 1]
    /\ pc' = "command"
    /\ UNCHANGED <<opts, callbacks, awaiting, handlers, sock, connected, wire,
                   net, buffer, thrown, log, nTimeouts, invoked, pushed,
                   written, replyOf, dispatched, timedOut, sent>>

\* command() called by the caller of Spec
CallCommand(params) == nCalls < MaxCmds /\ StartCommand(params)

\* this.callbacks.push(...)
StmtPush ==
    /\ callbacks' = Append(callbacks, call.h)
    /\ pushed' = Append(pushed, call.h)
    /\ UNCHANGED <<promise, awaiting, sock, wire, log, written>>

\* this.socket.write(this.protocol.encode(...parameters)).  When encode
\* throws, the executor ends there and the promise is rejected with the
\* error.  A write to a socket that was ended is refused: the socket reports
\* the error and is closed.
StmtWrite ==
    /\ UNCHANGED <<callbacks, pushed>>
    /\ IF EncodeThrows(call.params)
       THEN LET st == AfterAwait(
                        [promise |-> [promise EXCEPT ![call.h] =
                                        Reject(@, [type |-> "UsageError"])],
                         awaiting |-> awaiting, log |-> log, sock |-> sock])
            IN  /\ promise' = st.promise
                /\ awaiting' = st.awaiting
                /\ log' = st.log
                /\ sock' = st.sock
                /\ UNCHANGED <<wire, written>>
       ELSE /\ written' = Append(written, [h |-> call.h,
                                           bytes |-> Encode(call.params)])
            /\ IF sock = "open"
               THEN /\ wire' = Append(wire, [h |-> call.h,
                                             bytes |-> Encode(call.params)])
                    /\ UNCHANGED <<sock, log>>
               ELSE /\ wire' = <<>>
                    /\ sock' = "closed"
                    /\ log' = IF sock = "closed" THEN log
                              ELSE OnClose(OnError(log, handlers,
                                       [type |-> "WriteAfterEnd"]),
                                     handlers, TRUE)
            /\ UNCHANGED <<promise, awaiting>>

\* The next statement of the running command() call; the call returns after
\* its last statement, or when a statement throws.
CommandStmt ==
    /\ pc = "command"
    /\ IF CommandBody[call.stmt] = "push" THEN StmtPush ELSE StmtWrite
    /\ IF call.stmt = Len(CommandBody)
          \/ (CommandBody[call.stmt] = "write" /\ EncodeThrows(call.params))
       THEN pc' = "idle" /\ call' = NoCall
       ELSE pc' = pc /\ call' = [call EXCEPT !.stmt = @ + 1]
    /\ net' = IF sock' = "closed" THEN <<>> ELSE net
    /\ UNCHANGED <<opts, nCalls, handlers, connected, buffer, thrown,
                   nTimeouts, invoked, replyOf, dispatched, timedOut, sent>>

\* on(event, listener)
On(event) ==
    /\ pc = "idle"
    /\ Cardinality({e \in DOMAIN handlers : handlers[e]}) < MaxOn
    /\ handlers' = IF event \in DOMAIN handlers
                   THEN [handlers EXCEPT ![event] = TRUE]
                   ELSE handlers
    /\ UNCHANGED <<opts, pc, call, nCalls, callbacks, promise, awaiting, sock,
                   connected, wire, net, buffer, thrown, log, nTimeouts,
                   invoked, pushed, written, replyOf, dispatched, timedOut, sent>>

\* close()
Close ==
    /\ pc = "idle"
    /\ sock = "open"
    /\ sock' = End(sock)
    /\ UNCHANGED <<opts, pc, call, nCalls, callbacks, promise, awaiting,
                   handlers, connected, wire, net, buffer, thrown, log,
                   nTimeouts, invoked, pushed, written, replyOf, dispatched,
                   timedOut, sent>>

(***************************************************************************)
(* Events of the socket                                                    *)
(***************************************************************************)
\* 'connect'
Connect ==
    /\ pc = "idle"
    /\ sock # "closed"
    /\ ~connected
    /\ connected' = TRUE
    /\ log' = IF handlers.connect
              THEN Append(log, [to |-> "connect", arg |-> FALSE])
              ELSE log
    /\ UNCHANGED <<opts, pc, call, nCalls, callbacks, promise, awaiting,
                   handlers, sock, wire, net, buffer, thrown, nTimeouts,
                   invoked, pushed, written, replyOf, dispatched, timedOut, sent>>

\* 'data' with the first k bytes in flight: protocol.write(data), then
\* protocol.parse() and the forEach over its result.  When parse throws, the
\* exception leaves the listener and nothing is dispatched.  A promise that
\* auth() awaits and that this event settles resumes auth() right after.
Data(k) ==
    /\ pc = "idle"
    /\ sock # "closed"
    /\ k \in 1..Len(net)
    /\ net' = SubSeq(net, k + 1, Len(net))
    /\ LET parsed == Feed(buffer, SubSeq(net, 1, k))
       IN  IF parsed.bad
           THEN /\ buffer' = buffer \o SubSeq(net, 1, k)
                /\ thrown' = thrown \cup {"ProtocolViolation"}
                /\ UNCHANGED <<callbacks, promise, invoked, dispatched,
                               awaiting, log, sock>>
           ELSE LET d == Dispatch(parsed.msgs,
                            [callbacks |-> callbacks, promise |-> promise,
                             invoked |-> invoked, dispatched |-> dispatched,
                             thrown |-> thrown])
                    st == AfterAwait([promise |-> d.promise,
                                      awaiting |-> awaiting,
                                      log |-> log, sock |-> sock])
                IN  /\ buffer' = parsed.rest
                    /\ callbacks' = d.callbacks
                    /\ promise' = d.promise
                    /\ invoked' = d.invoked
                    /\ dispatched' = d.dispatched
                    /\ thrown' = d.thrown
                    /\ awaiting' = st.awaiting
                    /\ log' = st.log
                    /\ sock' = st.sock
    /\ UNCHANGED <<opts, pc, call, nCalls, handlers, connected, wire,
                   nTimeouts, pushed, written, replyOf, timedOut, sent>>

\* a 'timeout' listener that ends the socket whether or not the user
\* registered a listener
TimeoutAlwaysCloses ==
    /\ pc = "idle"
    /\ IsNumber(opts.timeout)
    /\ sock # "closed"
    /\ nTimeouts < MaxTimeouts
    /\ nTimeouts' = nTimeouts + 1
    /\ timedOut' = timedOut \cup PendingHandles
    /\ log' = IF handlers.timeout
              THEN Append(log, [to |-> "timeout", arg |-> FALSE])
              ELSE log
    /\ sock' = End(sock)
    /\ UNCHANGED <<opts, pc, call, nCalls, callbacks, promise, awaiting,
                   handlers, connected, wire, net, buffer, thrown, invoked,
                   pushed, written, replyOf, dispatched, sent>>

\* 'timeout': fires only when the constructor set a timeout
Timeout ==
    /\ pc = "idle"
    /\ IsNumber(opts.timeout)
    /\ sock # "closed"
    /\ nTimeouts < MaxTimeouts
    /\ nTimeouts' = nTimeouts + 1
    /\ timedOut' = timedOut \cup PendingHandles
    /\ IF handlers.timeout
       THEN /\ log' = Append(log, [to |-> "timeout", arg |-> FALSE])
            /\ sock' = sock
       ELSE /\ log' = log
            /\ sock' = End(sock)
    /\ UNCHANGED <<opts, pc, call, nCalls, callbacks, promise, awaiting,
                   handlers, connected, wire, net, buffer, thrown, invoked,
                   pushed, written, replyOf, dispatched, sent>>

\* 'close' without an error: the peer closed, or the end() completed.  What
\* was in flight is gone.
SocketClose ==
    /\ pc = "idle"
    /\ sock # "closed"
    /\ sock' = "closed"
    /\ log' = OnClose(log, handlers, FALSE)
    /\ wire' = <<>>
    /\ net' = <<>>
    /\ UNCHANGED <<opts, pc, call, nCalls, callbacks, promise, awaiting,
                   handlers, connected, buffer, thrown, nTimeouts, invoked,
                   pushed, written, replyOf, dispatched, timedOut, sent>>

\* 'error' of the transport, followed by 'close' with had_error
SocketError ==
    /\ pc = "idle"
    /\ sock # "closed"
    /\ sock' = "closed"
    /\ log' = OnClose(OnError(log, handlers, [type |-> "TransportError"]),
                      handlers, TRUE)
    /\ wire' = <<>>
    /\ net' = <<>>
    /\ UNCHANGED <<opts, pc, call, nCalls, callbacks, promise, awaiting,
                   handlers, connected, buffer, thrown, nTimeouts, invoked,
                   pushed, written, replyOf, dispatched, timedOut, sent>>

(***************************************************************************)
(* The server                                                              *)
(***************************************************************************)
\* The server answers the oldest unanswered command with one frame.
ServerReply(f) ==
    /\ connected
    /\ sock # "closed"
    /\ wire # <<>>
    /\ wire' = Tail(wire)
    /\ net' = net \o f.bytes
    /\ replyOf' = [replyOf EXCEPT ![Head(wire).h] = f.msg]
    /\ sent' = Append(sent, [h |-> Head(wire).h, msg |-> f.msg,
                             bytes |-> f.bytes])
    /\ UNCHANGED <<opts, pc, call, nCalls, callbacks, promise, awaiting,
                   handlers, sock, connected, buffer, thrown, log, nTimeouts,
                   invoked, pushed, written, dispatched, timedOut>>

Next ==
    \/ Construct
    \/ \E params \in UserCommands : CallCommand(params)
    \/ CommandStmt
    \/ \E event \in OnEvents : On(event)
    \/ Close
    \/ Connect
    \/ \E k \in 1..Len(net) : Data(k)
    \/ Timeout
    \/ SocketClose
    \/ SocketError
    \/ \E f \in ServerFrames : ServerReply(f)

Spec == Init /\ [][Next]_vars

(***************************************************************************)
(* A server that breaks the one-reply-per-command assumption, once          *)
(***************************************************************************)
\* command c was answered with more than one frame
Surplus(c) ==
    \E i \in 2..Len(sent) : sent[i].h = c /\ sent[i - 1].h = c

\* command c was written and passed over by the server without a frame
Skipped(c) ==
    /\ \E i \in 1..Len(written) : written[i].h = c
    /\ \A i \in 1..Len(wire) : wire[i].h # c
    /\ \A i \in 1..Len(sent) : sent[i].h # c

\* the server has kept to one frame per command so far
OneReplyEach == \A c \in Handles : ~Surplus(c) /\ ~Skipped(c)

\* The server sends a second frame for the command it answered last, while a
\* later command waits for its answer.
ServerSurplus(f) ==
    /\ connected
    /\ sock # "closed"
    /\ OneReplyEach
    /\ sent # <<>>
    /\ wire # <<>>
    /\ net' = net \o f.bytes
    /\ sent' = Append(sent, [h |-> sent[Len(sent)].h, msg |-> f.msg,
                             bytes |-> f.bytes])
    /\ UNCHANGED <<opts, pc, call, nCalls, callbacks, promise, awaiting,
                   handlers, sock, connected, wire, buffer, thrown, log,
                   nTimeouts, invoked, pushed, written, replyOf, dispatched,
                   timedOut>>

\* The server passes over the oldest unanswered command, while a later
\* command waits for its answer.
ServerSkip ==
    /\ connected
    /\ sock # "closed"
    /\ OneReplyEach
    /\ Len(wire) >= 2
    /\ wire' = Tail(wire)
    /\ UNCHANGED <<opts, pc, call, nCalls, callbacks, promise, awaiting,
                   handlers, sock, connected, net, buffer, thrown, log,
                   nTimeouts, invoked, pushed, written, replyOf, dispatched,
                   timedOut, sent>>

\* command() called by the caller of SpecLoose
CallLoose(params) == nCalls < LooseCmds /\ StartCommand(params)

\* a connection constructed without credentials and without a timeout
InitLoose ==
    /\ Init
    /\ opts = [username |-> Undefined, password |-> Undefined,
               timeout |-> Undefined]

NextLoose ==
    \/ Construct
    \/ \E params \in UserCommands : CallLoose(params)
    \/ CommandStmt
    \/ Connect
    \/ \E k \in 1..Len(net) : Data(k)
    \/ \E f \in ServerFrames : ServerReply(f)
    \/ \E f \in ServerFrames : ServerSurplus(f)
    \/ ServerSkip

SpecLoose == InitLoose /\ [][NextLoose]_vars

(***************************************************************************)
(* The decoder alone: the bytes of K replies fed in two writes              *)
(***************************************************************************)
\* the replies the decoder is fed: every variant, the null markers, empty and
\* nested arrays, and a bulk string that holds a CRLF
CodecMessages ==
    { Simple(<<"O", "K">>),
      Error(<<"e">>),
      Integer(-12),
      BulkString(<<"a">>),
      BulkString(<<>>),
      BulkString(CRLF),
      NullBulk,
      Array(<<>>),
      NullArray,
      Array(<<Integer(7), BulkString(<<"b">>)>>),
      Array(<<Array(<<Simple(<<"a">>)>>), NullBulk>>) }

\* the frame of reply m
FrameOf(m) == [h |-> 0, msg |-> m, bytes |-> Serialize(m)]

\* the bytes of the frames fs, one after the other
RECURSIVE StreamOf(_)
StreamOf(fs) ==
    IF Len(fs) = 0 THEN <<>> ELSE Head(fs).bytes \o StreamOf(Tail(fs))

\* up to MaxCmds replies are on the wire, and no connection is involved:
\* sent holds their frames, net the bytes not yet written to the decoder
InitCodec ==
    /\ \E n \in 0..MaxCmds :
          \E ms \in [1..n -> CodecMessages] :
              /\ sent = [i \in 1..n |-> FrameOf(ms[i])]
              /\ net = StreamOf([i \in 1..n |-> FrameOf(ms[i])])
    /\ opts = [username |-> Undefined, password |-> Undefined,
               timeout |-> Undefined]
    /\ pc = "codec"
    /\ call = NoCall
    /\ nCalls = 0
    /\ callbacks = <<>>
    /\ promise = [h \in Handles |-> NoPromise]
    /\ awaiting = 0
    /\ handlers = NoHandlers
    /\ sock = "open"
    /\ connected = TRUE
    /\ wire = <<>>
    /\ buffer = <<>>
    /\ thrown = {}
    /\ log = <<>>
    /\ nTimeouts = 0
    /\ invoked = [h \in Handles |-> 0]
    /\ pushed = <<>>
    /\ written = <<>>
    /\ replyOf = [h \in Handles |-> NoReply]
    /\ dispatched = <<>>
    /\ timedOut = {}

\* One write call followed by parse, as in the 'data' listener: the first
\* call takes the first k bytes, for every k, and the second call the rest.
\* nCalls counts the calls, written holds the chunks, dispatched collects
\* the parse results.
CodecWrite(k) ==
    /\ pc = "codec"
    /\ k \in 0..Len(net)
    /\ nCalls = 0 \/ (nCalls = 1 /\ k = Len(net))
    /\ nCalls' = nCalls + 1
    /\ net' = SubSeq(net, k + 1, Len(net))
    /\ written' = Append(written, [h |-> 0, bytes |-> SubSeq(net, 1, k)])
    /\ LET parsed == Feed(buffer, SubSeq(net, 1, k))
       IN  /\ buffer' = IF parsed.bad THEN buffer \o SubSeq(net, 1, k)
                        ELSE parsed.rest
           /\ thrown' = IF parsed.bad THEN thrown \cup {"ProtocolViolation"}
                        ELSE thrown
           /\ dispatched' = IF parsed.bad THEN dispatched
                            ELSE dispatched \o
                                 [i \in 1..Len(parsed.msgs) |->
                                     [h |-> 0, msg |-> parsed.msgs[i]]]
    /\ UNCHANGED <<opts, pc, call, callbacks, promise, awaiting, handlers,
                   sock, connected, wire, log, nTimeouts, invoked, pushed,
                   replyOf, timedOut, sent>>

NextCodec == \E k \in 0..Len(net) : CodecWrite(k)

SpecCodec == InitCodec /\ [][NextCodec]_vars

(***************************************************************************)
(* Properties                                                              *)
(***************************************************************************)
Range(q) == {q[i] : i \in 1..Len(q)}

\* the handles whose frame was handed to socket.write
WrittenHandles == {written[i].h : i \in 1..Len(written)}

\* the server has answered the command of handle h with a reply of the protocol
Answered(h) == replyOf[h] \notin {NoReply, Malformed}

\* the message of the last dispatch to handle h in the history d
LastGiven(d, h) ==
    LET is == {i \in 1..Len(d) : d[i].h = h}
    IN  d[CHOOSE i \in is : \A j \in is : j <= i].msg

\* the failure a handle is to be rejected with for the Error reply m
ErrorText(m) == [type |-> "ErrorText", val |-> m.val]

\* the failure a handle is to be rejected with when the connection is lost
ConnectionClosed == [type |-> "ConnectionClosed"]

authConfigured == IsString(opts.username) \/ IsString(opts.password)

\* C1: FIFO pairing.  While the server has sent one reply for each of the
\* first N command() calls, in order, the N-th decoded reply is the reply to
\* the N-th command and it is given to the N-th handle, which is settled
\* with it, however the bytes were cut into 'data' events.
C1_FIFOPairing ==
    \A n \in 1..Len(dispatched) :
        (\A j \in 1..n : Answered(j)) =>
            /\ dispatched[n].h = n
            /\ dispatched[n].msg = replyOf[n]
            /\ Settled(promise[n])
            /\ promise[n].val = replyOf[n]

\* C1 witness: two commands were answered with different replies; the first
\* handle has its own reply while a fragment of the second reply waits in
\* the decoder.
C1_Witness ==
    /\ Len(dispatched) = 1
    /\ Answered(1) /\ Answered(2)
    /\ replyOf[1] # replyOf[2]
    /\ promise[1].val = replyOf[1]
    /\ buffer # <<>>

\* C2: each decoded reply settles the handle at the head of the queue:
\* fulfilled with the message when it is no Error, rejected with the error
\* text when it is an Error.
C2_ErrorReplyRejects ==
    [][\A h \in Handles :
          (promise[h].state = "pending" /\ invoked'[h] = invoked[h] + 1) =>
              LET m == LastGiven(dispatched', h)
              IN  IF m.type = "Error"
                  THEN promise'[h] = [state |-> "rejected", val |-> ErrorText(m)]
                  ELSE promise'[h] = [state |-> "fulfilled", val |-> m]]_vars

\* C3: when the transport closes, every entry of the pending queue is
\* settled with a connection-closed failure and the queue is empty after it.
C3_CloseDrainsQueue ==
    [][(sock # "closed" /\ sock' = "closed") =>
          /\ callbacks' = <<>>
          /\ \A h \in Range(callbacks) :
                promise[h].state = "pending" =>
                    promise'[h] = [state |-> "rejected",
                                   val |-> ConnectionClosed]]_vars

\* C4: a command() call that encode rejects is rejected before the queue is
\* touched: its callback was never appended and nothing of it was written.
C4_UsageErrorLeavesQueue ==
    \A h \in Handles :
        promise[h].val.type = "UsageError" =>
            h \notin Range(pushed) /\ h \notin WrittenHandles

\* C5: when parse reports a protocol violation, every pending handle is
\* settled with a failure and the transport is closed.
C5_ViolationDrainsQueue ==
    [][("ProtocolViolation" \notin thrown /\ "ProtocolViolation" \in thrown') =>
          /\ \A h \in PendingHandles : promise'[h].state = "rejected"
          /\ callbacks' = <<>>
          /\ sock' # "open"]_vars

\* C6: a handle goes from pending to fulfilled or to rejected at most once,
\* a settled handle never changes again, and the callback queued for a
\* handle is invoked at most once.
C6_SettledOnce ==
    [][\A h \in Handles :
          /\ Settled(promise[h]) => promise'[h] = promise[h]
          /\ promise[h].state = "pending" =>
                promise'[h].state \in {"pending", "fulfilled", "rejected"}
          /\ promise[h].state = "none" =>
                promise'[h].state \in {"none", "pending"}
          /\ invoked'[h] <= 1]_vars

\* C6 witness: the callback of a handle that encode had already rejected was
\* invoked with a reply, and the handle is still rejected.
C6_Witness ==
    \E h \in Handles :
        /\ promise[h].state = "rejected"
        /\ invoked[h] = 1

\* C7: the callback of a command is appended to the queue before the
\* command's bytes are handed to the socket: in no state has a command been
\* written, been answered or had a reply decoded for it while its callback
\* was not yet appended.
C7_PushBeforeWrite ==
    \A h \in Handles :
        (h \in WrittenHandles \/ replyOf[h] # NoReply) => h \in Range(pushed)

\* C7 witness: a command() call stands between its two statements, its
\* callback queued and its bytes not yet written, while reply bytes of an
\* earlier command are in flight.
C7_Witness ==
    /\ pc = "command"
    /\ CommandBody[call.stmt] = "write"
    /\ call.h \in Range(callbacks)
    /\ call.h \notin WrittenHandles
    /\ net # <<>>

\* C8: an Error reply affects only the handle it answers.  With commands
\* pending and an Error reply to the second of them, the second handle is
\* rejected with that error text, and the handles before and after it are
\* fulfilled with their own replies.
C8_ErrorHitsOneHandle ==
    \A h \in Handles :
        ( /\ h >= 2
          /\ \A g \in 1..h : g \in WrittenHandles /\ Answered(g)
          /\ replyOf[h - 1].type # "Error"
          /\ replyOf[h].type = "Error"
          /\ Len(dispatched) >= h )
        => /\ promise[h - 1] = [state |-> "fulfilled", val |-> replyOf[h - 1]]
           /\ promise[h] = [state |-> "rejected", val |-> ErrorText(replyOf[h])]
           /\ ( /\ h + 1 \in Handles
                /\ Len(dispatched) >= h + 1
                /\ h + 1 \in WrittenHandles
                /\ Answered(h + 1)
                /\ replyOf[h + 1].type # "Error" )
              => promise[h + 1] = [state |-> "fulfilled",
                                   val |-> replyOf[h + 1]]

\* C9: after a 'timeout' event the pending handles are drained as on a
\* transport close: once the connection is closed, every handle that was
\* pending at the 'timeout' event has been rejected.
C9_TimeoutDrainsQueue ==
    sock = "closed" =>
        \A h \in timedOut : promise[h].state = "rejected"

\* C10: with a username or a password configured, the AUTH command is the
\* first entry ever appended to the queue and the first frame written, both
\* before any caller can issue a command, and the first decoded reply is
\* given to the AUTH handle.
C10_AuthFirst ==
    (authConfigured /\ pc # "new") =>
        /\ pc = "idle" => Len(pushed) >= 1 /\ Len(written) >= 1
        /\ nCalls >= 2 => Len(pushed) >= 1 /\ Len(written) >= 1
        /\ Len(written) >= 1 =>
              /\ written[1].bytes = Encode(AuthParams(
                    [username |-> opts.username, password |-> opts.password]))
              /\ Len(pushed) >= 1 /\ pushed[1] = written[1].h
        /\ Len(dispatched) >= 1 =>
              Len(written) >= 1 /\ dispatched[1].h = written[1].h

\* C10 witness: with authentication configured, the reply to AUTH and the
\* reply to a caller's command have both been dispatched.
C10_Witness ==
    /\ authConfigured
    /\ Len(dispatched) >= 2
    /\ Len(written) >= 2
    /\ dispatched[1].h = written[1].h
    /\ dispatched[2].h = written[2].h

\* the number of bytes of the first i frames the server sent
RECURSIVE EndOf(_)
EndOf(i) == IF i = 0 THEN 0 ELSE EndOf(i - 1) + Len(sent[i].bytes)

\* the number of frames the server sent that end within the first n bytes
Completed(n) == Cardinality({i \in 1..Len(sent) : EndOf(i) <= n})

\* the number of bytes delivered in 'data' events when nt is still in flight
Received(nt) == EndOf(Len(sent)) - Len(nt)

\* a step that is a 'data' event
DataStep == sock' # "closed" /\ Len(net') < Len(net)

\* C11: no message is handed out partially decoded.  A 'data' event whose
\* bytes complete no message settles no handle and leaves the queue as it
\* is; a reply is dispatched only by the 'data' event that delivers its last
\* byte, and then as the whole message the server sent.
C11_NoPartialMessage ==
    [][DataStep =>
          /\ Completed(Received(net')) = Completed(Received(net)) =>
                /\ callbacks' = callbacks
                /\ promise' = promise
                /\ invoked' = invoked
                /\ dispatched' = dispatched
          /\ \A i \in (Len(dispatched) + 1)..Len(dispatched') :
                /\ dispatched'[i].msg = sent[i].msg
                /\ Received(net) < EndOf(i)
                /\ EndOf(i) <= Received(net')]_vars

\* C11 witness: a fragment of the first reply is buffered; no handle is
\* settled and the queue still holds the callback waiting for it.
C11_Witness ==
    /\ buffer # <<>>
    /\ Len(sent) >= 1
    /\ Len(buffer) < Len(sent[1].bytes)
    /\ sent[1].msg # Malformed
    /\ dispatched = <<>>
    /\ callbacks # <<>>
    /\ promise[Head(callbacks)].state = "pending"

\* the messages of the dispatches d, in order
MessagesOf(d) == [i \in 1..Len(d) |-> d[i].msg]

\* C12: split-invariance of the decoder.  When the bytes of K replies have
\* been written in two calls, split at any offset, the parse results of the
\* two calls together are the messages of one parse of all the bytes: the K
\* replies, in order, each once and unaltered, with no byte left over.
C12_SplitInvariance ==
    (nCalls = 2 /\ net = <<>>) =>
        /\ MessagesOf(dispatched) = Parse(StreamOf(sent)).msgs
        /\ MessagesOf(dispatched) = MessagesOf(sent)
        /\ buffer = <<>>
        /\ thrown = {}

\* C12 witness: two replies, the first a nested array, were written in two
\* calls; the first call ended inside the array and returned nothing.
C12_Witness ==
    /\ nCalls = 2 /\ net = <<>>
    /\ Len(sent) = 2
    /\ sent[1].msg = Array(<<Array(<<Simple(<<"a">>)>>), NullBulk>>)
    /\ written[1].bytes # <<>>
    /\ Len(written[1].bytes) < Len(sent[1].bytes)
    /\ Len(dispatched) = 2

\* C13: the pairing is not defended, and a broken pairing stays broken.  Once
\* a command was answered with more than one frame, or with none, while a
\* later command was pending, every later handle that a reply resolves is
\* resolved with a reply of another command, whatever the connection does
\* afterwards.  (The queue was in step with the commands written up to c,
\* and no exception has left a handler, so that the i-th dispatch is the i-th
\* frame sent.)
C13_NeverRestored ==
    \A c \in Handles :
        (/\ Surplus(c) \/ Skipped(c)
         /\ \A h \in Range(pushed) \ WrittenHandles : h > c
         /\ thrown = {}) =>
            \A j \in 1..Len(dispatched) :
                (/\ dispatched[j].h > c
                 /\ promise[dispatched[j].h].state = "fulfilled") =>
                    sent[j].h # dispatched[j].h

\* the request frame b carries the command name AUTH
IsAuthFrame(b) ==
    Len(b) >= 12 /\ SubSeq(b, 9, 12) = <<"A", "U", "T", "H">>

\* the request frames written so far that carry AUTH
AuthFrames == {i \in 1..Len(written) : IsAuthFrame(written[i].bytes)}

\* C14: the shape of AUTH.  Once the constructor has returned, a connection
\* with a username and a password has written AUTH username password, one
\* with a username only AUTH username, one with a password only
\* AUTH password, each as the first frame and as the only AUTH frame; with
\* neither, no AUTH frame is ever written and the queue is empty after
\* construction.
C14_AuthShape ==
    pc = "idle" =>
        /\ (opts.username = Str(<<"u">>) /\ opts.password = Str(<<"p">>)) =>
              /\ AuthFrames = {1}
              /\ written[1].bytes =
                    Encode(<<Str(<<"A", "U", "T", "H">>), Str(<<"u">>),
                             Str(<<"p">>)>>)
        /\ (opts.username = Str(<<"u">>) /\ opts.password = Undefined) =>
              /\ AuthFrames = {1}
              /\ written[1].bytes =
                    Encode(<<Str(<<"A", "U", "T", "H">>), Str(<<"u">>)>>)
        /\ (opts.username = Undefined /\ opts.password = Str(<<"p">>)) =>
              /\ AuthFrames = {1}
              /\ written[1].bytes =
                    Encode(<<Str(<<"A", "U", "T", "H">>), Str(<<"p">>)>>)
        /\ (opts.username = Undefined /\ opts.password = Undefined) =>
              /\ AuthFrames = {}
              /\ nCalls = 0 => (callbacks = <<>> /\ written = <<>>)

\* C14 witness: a connection with a username and a password has written its
\* AUTH frame and, after it, a command of the caller.
C14_Witness ==
    /\ pc = "idle"
    /\ IsString(opts.username) /\ IsString(opts.password)
    /\ Len(written) = 2
    /\ IsAuthFrame(written[1].bytes)
    /\ ~IsAuthFrame(written[2].bytes)

\* C15: the queue invariant.  Whenever no command() call is running, the
\* queue holds exactly the handles that are still pending, in issue order
\* and each once, and its length is the number of command() calls minus the
\* number of replies delivered; a handle leaves the queue in the very step
\* that settles it, and a handle that has left the queue never returns.
C15_QueueInvariant ==
    [][/\ pc' = "idle" =>
             /\ Range(callbacks') = PendingHandles'
             /\ \A i, j \in 1..Len(callbacks') :
                   i < j => callbacks'[i] < callbacks'[j]
             /\ Len(callbacks') = nCalls' - Len(dispatched')
       /\ \A h \in Handles :
             /\ (h \in Range(callbacks) /\ h \notin Range(callbacks')) <=>
                   (promise[h].state = "pending" /\ Settled(promise'[h]))
             /\ (h \in Range(pushed) /\ h \notin Range(callbacks)) =>
                   h \notin Range(callbacks')]_vars

\* C16: the 'data' listener never pops an empty queue.  With a server that
\* answers each command it received with at most one reply, no dispatch
\* finds the queue empty (shift() on the empty queue is the TypeError of
\* Dispatch), and the replies dispatched never outnumber the commands
\* issued.
C16_NeverPopsEmpty ==
    /\ "TypeError" \notin thrown
    /\ Len(dispatched) <= nCalls
    /\ Len(dispatched) <= Len(pushed)

\* C16 witness: two commands were issued and both replies dispatched; the
\* second dispatch took the last entry of the queue.
C16_Witness ==
    /\ nCalls = 2
    /\ Len(dispatched) = 2
    /\ callbacks = <<>>
    /\ thrown = {}

\* C17: a failed authentication closes the connection.  In the step in which
\* auth() resumes after its await: if the AUTH handle was rejected, or was
\* fulfilled with a value that is an Error, the error is emitted on the
\* socket (the user's 'error' listener, if one is registered, is called with
\* it) and the socket is ended; if the handle was fulfilled with any other
\* value, no listener is called and the socket is left as it was.
C17_AuthFailureEnds ==
    [][(awaiting # 0 /\ awaiting' = 0) =>
          IF \/ promise'[awaiting].state = "rejected"
             \/ /\ promise'[awaiting].state = "fulfilled"
                /\ IsErrorValue(promise'[awaiting].val)
          THEN /\ log' = IF handlers.error
                         THEN Append(log, [to |-> "error",
                                           arg |-> promise'[awaiting].val])
                         ELSE log
               /\ sock = "open" => sock' = "ended"
               /\ sock' # "open"
          ELSE /\ promise'[awaiting].state = "fulfilled"
               /\ log' = log
               /\ sock' = sock]_vars

\* C17 witness: the AUTH handle was fulfilled with an Error reply; the user's
\* 'error' listener was called with it and the socket is ended.
C17_Witness ==
    /\ authConfigured
    /\ awaiting = 0
    /\ promise[1].state = "fulfilled"
    /\ promise[1].val = Error(<<"e">>)
    /\ handlers.error
    /\ log = <<[to |-> "error", arg |-> Error(<<"e">>)]>>
    /\ sock = "ended"

\* C18: the 'timeout' event.  The listener of init() ends the socket if and
\* only if the user has registered no 'timeout' listener at that moment;
\* with a listener registered, that listener is called and the socket is
\* left as it was.  Either way the queue and the promises are untouched.
C18_TimeoutEndsUnlessHandled ==
    [][(nTimeouts' = nTimeouts + 1) =>
          /\ IF handlers.timeout
             THEN /\ log' = Append(log, [to |-> "timeout", arg |-> FALSE])
                  /\ sock' = sock
             ELSE /\ log' = log
                  /\ sock' # "open"
                  /\ sock = "open" => sock' = "ended"
          /\ callbacks' = callbacks
          /\ promise' = promise]_vars

\* C18 witness: a 'timeout' event came with a listener registered and a
\* command pending; the listener was called and the socket is still open.
C18_Witness ==
    /\ nTimeouts = 1
    /\ handlers.timeout
    /\ log = <<[to |-> "timeout", arg |-> FALSE]>>
    /\ sock = "open"
    /\ callbacks # <<>>
    /\ PendingHandles # {}

====
